---------------------------- MODULE Spec2Model ----------------------------
(***************************************************************************)
(* A model of the Coinbase proxy: the HTTP front end of server-python/     *)
(* main.py (POST /proxy -> CoinbaseAPIClient.make_request) and the stdio   *)
(* RPC loop of server-python/mcp_server.py (main -> handle_request ->      *)
(* get_accounts / get_product_ticker / place_order).                       *)
(*                                                                         *)
(* Strings that the code inspects (paths, error messages) are sequences    *)
(* of tokens; every other string is one TLA+ string.  Python's None, and   *)
(* an absent key read with dict.get, is the string None.                   *)
(***************************************************************************)
EXTENDS Integers, Sequences, FiniteSets, TLC

VARIABLES
    defaults,     \* main.py: COINBASE_KEY_NAME / _KEY_ID / _PRIVATE_KEY
    api_client,   \* main.py: api_client.client, the module-level singleton's field
    hpc,          \* per HTTP request: "idle" | "json" (awaiting request.json()) | "done"
    hbody,        \* per HTTP request: the POST body
    hresp,        \* per HTTP request: the response of proxy_request
    env,          \* mcp_server.py: COINBASE_KEY_NAME / _KEY_ID / _PRIVATE_KEY
    client,       \* mcp_server.py: CoinbaseMCPServer.client
    pc,           \* main(): "read" | "handle" | "done"
    line,         \* main(): the line read last
    resp,         \* main(): what the last handled line did (response, upstream
                  \* call, order) and self.client as it was before
    nread,        \* lines read so far (end-of-input not counted)
    nout,         \* response lines written so far
    clock,        \* asyncio loop.time(), in ticks of 1/TicksPerSecond second
    submitted     \* client_order_id of every order handed to client.create_order

vars == <<defaults, api_client, hpc, hbody, hresp,
          env, client, pc, line, resp, nread, nout, clock, submitted>>
hvars == <<defaults, api_client, hpc, hbody, hresp>>
svars == <<env, client, pc, line, resp, nread, nout, clock, submitted>>

(***************************************************************************)
(* Bounds of the model.                                                    *)
(***************************************************************************)
NReq == 2            \* HTTP requests in flight at once
MaxMsgLen == 4       \* tokens of an upstream exception's message
MaxLines == 3        \* lines the stdio loop reads before end-of-input
MaxClock == 3        \* ticks the loop clock advances
TicksPerSecond == 2  \* resolution of the modelled clock

(***************************************************************************)
(* Python values.                                                          *)
(***************************************************************************)
None == "<None>"
\* bool(v) of a string or None
Truthy(v) == v \notin {None, ""}
\* a or b
Or(a, b) == IF Truthy(a) THEN a ELSE b
NoClient == <<>>

\* a comparison that leaves the case as it is
upper_Identity(s) == s
\* str.upper() on the strings the model uses
upper(s) ==
    CASE s = "get" -> "GET"
      [] s = "post" -> "POST"
      [] s = "buy" -> "BUY"
      [] s = "Sell" -> "SELL"
      [] s = "hold" -> "HOLD"
      [] s = "market" -> "MARKET"
      [] s = "Limit" -> "LIMIT"
      [] s = "stop" -> "STOP"
      [] OTHER -> s

\* p.startswith(q), p.endswith(q), q in p, for token sequences
startswith(p, q) == Len(q) <= Len(p) /\ SubSeq(p, 1, Len(q)) = q
endswith(p, q) == Len(q) <= Len(p) /\ SubSeq(p, Len(p) - Len(q) + 1, Len(p)) = q
contains(p, q) == \E i \in 0..(Len(p) - Len(q)) : SubSeq(p, i + 1, i + Len(q)) = q

\* p.split('/'): the segments between the "/" tokens
RECURSIVE split(_)
split(p) ==
    IF \A i \in 1..Len(p) : p[i] # "/"
    THEN <<p>>
    ELSE LET k == CHOOSE i \in 1..Len(p) :
                      p[i] = "/" /\ \A j \in 1..(i - 1) : p[j] # "/"
         IN <<SubSeq(p, 1, k - 1)>> \o split(SubSeq(p, k + 1, Len(p)))

(***************************************************************************)
(* main.py: the routing table and the error messages.                      *)
(***************************************************************************)
Brokerage == <<"/", "api", "/", "v3", "/", "brokerage">>
AccountsPath == Brokerage \o <<"/", "accounts">>
ProductsPrefix == Brokerage \o <<"/", "products", "/">>
TickerSuffix == <<"/", "ticker">>
OrdersPath == Brokerage \o <<"/", "orders">>

\* tokens of an error message that the status extraction looks at
CBE == "Coinbase API error"
ERR == "error"
SP == " "
Digits == {"0", "4"}
DigitValue(d) == IF d = "4" THEN 4 ELSE 0

\* a message that names neither the method nor the path
NotImplementedMsg_NoPath(method, path) ==
    <<"Endpoint not yet implemented in Python backend">>
NotImplementedMsg(method, path) ==
    <<"Endpoint ", method, SP>> \o path \o <<" not yet implemented in Python backend">>
ClientInitMsg == <<"Failed to initialize Coinbase client: ", "sdk failure">>

\* the branch of make_request's if/elif chain that (method, path) takes
Route(method, path) ==
    IF path = AccountsPath /\ upper(method) = "GET" THEN "get_accounts"
    ELSE IF startswith(path, ProductsPrefix) /\ endswith(path, TickerSuffix)
            /\ upper(method) = "GET" THEN "get_public_product"
    ELSE IF path = OrdersPath /\ upper(method) = "POST" THEN "create_order"
    ELSE IF path = OrdersPath /\ upper(method) = "GET" THEN "list_orders"
    ELSE "none"

\* what the routed SDK call is given
RouteArg(op, path, payload) ==
    CASE op = "get_public_product" ->
             LET segs == split(path) IN segs[Len(segs) - 1]
      [] op = "create_order" -> <<payload>>
      [] OTHER -> <<>>

\* a client kept from an earlier call and handed out again
get_client_Cached(key_name, private_key, key_id, old, cons) ==
    IF old # NoClient
    THEN [raised |-> FALSE, client |-> old, stash |-> old]
    ELSE IF cons = "ok"
    THEN [raised |-> FALSE, client |-> <<key_id, private_key>>,
          stash |-> <<key_id, private_key>>]
    ELSE [raised |-> TRUE, client |-> NoClient, stash |-> old]
\* CoinbaseAPIClient.get_client: cons is whether RESTClient(...) returns or raises
get_client(key_name, private_key, key_id, old, cons) ==
    IF cons = "ok"
    THEN [raised |-> FALSE, client |-> <<key_id, private_key>>,
          stash |-> <<key_id, private_key>>]
    ELSE [raised |-> TRUE, client |-> NoClient, stash |-> old]

\* CoinbaseAPIClient.make_request: up is what the SDK call does once issued
make_request(method, path, key_name, private_key, key_id, payload, old, cons, up) ==
    LET gc == get_client(key_name, private_key, key_id, old, cons)
        op == Route(method, path)
    IN IF gc.raised
       THEN [raised |-> FALSE, error |-> TRUE, msg |-> ClientInitMsg,
             op |-> "none", cl |-> NoClient, arg |-> <<>>, stash |-> gc.stash]
       ELSE IF op = "none"
       THEN [raised |-> FALSE, error |-> TRUE, msg |-> NotImplementedMsg(method, path),
             op |-> "none", cl |-> NoClient, arg |-> <<>>, stash |-> gc.stash]
       ELSE [raised |-> FALSE, error |-> up.raised,
             msg |-> IF up.raised THEN up.msg ELSE <<>>,
             op |-> op, cl |-> gc.client, arg |-> RouteArg(op, path, payload),
             stash |-> gc.stash]

\* re.search(r'error (\d+)', msg): the leftmost "error", " ", digit
MatchAt(msg, i) ==
    /\ i + 2 <= Len(msg)
    /\ msg[i] \in {CBE, ERR}
    /\ msg[i + 1] = SP
    /\ msg[i + 2] \in Digits
HasMatch(msg) == \E i \in 1..Len(msg) : MatchAt(msg, i)
FirstMatch(msg) ==
    CHOOSE i \in 1..Len(msg) : MatchAt(msg, i) /\ \A j \in 1..(i - 1) : ~MatchAt(msg, j)
\* int(match.group(1)): the greedy run of digits from position i, read in base ten
RECURSIVE DigitRun(_, _, _)
DigitRun(msg, i, acc) ==
    IF i <= Len(msg) /\ msg[i] \in Digits
    THEN DigitRun(msg, i + 1, 10 * acc + DigitValue(msg[i]))
    ELSE acc

\* the status taken from any "error <digits>", marker or not
StatusOf_NoMarker(msg) ==
    IF HasMatch(msg) THEN DigitRun(msg, FirstMatch(msg) + 2, 0) ELSE 500
\* proxy_request, lines 165-171: the status of a normalized error
StatusOf(msg) ==
    IF contains(msg, <<CBE>>) /\ HasMatch(msg)
    THEN DigitRun(msg, FirstMatch(msg) + 2, 0)
    ELSE 500

NoCall(status, detail, stash) ==
    [status |-> status, detail |-> detail, made |-> FALSE, cons |-> "na",
     raised |-> FALSE, error |-> status # 0,
     op |-> "none", cl |-> NoClient, arg |-> <<>>, stash |-> stash]

\* proxy_request, from the parsed (or unparsable) body to the response
proxy_request(body, defs, old, cons, up) ==
    IF body.kind = "malformed"
    THEN NoCall(400, <<"Invalid JSON in request body">>, old)
    ELSE IF body.kind # "object"
    THEN NoCall(500, <<"'list' object has no attribute 'get'">>, old)
    ELSE
      LET key_name == Or(body.keyName, defs.keyName)
          key_id == Or(body.keyId, defs.keyId)
          private_key == Or(body.privateKey, defs.privateKey)
          method == body.method
          path == IF body.path # <<>> /\ ~startswith(body.path, <<"/">>)
                  THEN <<"/">> \o body.path ELSE body.path
      IN IF ~(Truthy(key_name) /\ Truthy(private_key) /\ Truthy(method)
              /\ body.path # <<>>)
         THEN NoCall(400, <<"Missing required fields: keyName, privateKey, method, path">>,
                     old)
         ELSE LET r == make_request(method, path, key_name, private_key, key_id,
                                    body.payload, old, cons, up)
              IN [status |-> IF r.raised THEN 500
                             ELSE IF r.error THEN StatusOf(r.msg) ELSE 200,
                  detail |-> r.msg, made |-> TRUE, cons |-> cons,
                  raised |-> r.raised, error |-> r.error,
                  op |-> r.op, cl |-> r.cl, arg |-> r.arg, stash |-> r.stash]

(***************************************************************************)
(* The HTTP requests: what a caller may post, and what the environment     *)
(* (client construction, the exchange) may do.                             *)
(***************************************************************************)
Slots == 1..NReq
NoBody == [kind |-> "none", keyName |-> None, keyId |-> None, privateKey |-> None,
           method |-> None, path |-> <<>>, payload |-> None]
NoResp == NoCall(0, <<>>, NoClient)

Methods == {None, "GET", "get", "POST", "DELETE"}
Paths == {<<>>, AccountsPath, Tail(AccountsPath),
          ProductsPrefix \o <<"BTC-USD">> \o TickerSuffix,
          Brokerage \o <<"/", "products">> \o TickerSuffix,
          OrdersPath, Brokerage \o <<"/", "fills">>}
ObjectBodies ==
    [kind : {"object"}, keyName : {None, "", "rk"}, keyId : {None, "rid"},
     privateKey : {None, "", "rs"}, method : Methods, path : Paths,
     payload : {"order-cfg"}]
Bodies == ObjectBodies \cup {[NoBody EXCEPT !.kind = "malformed"],
                             [NoBody EXCEPT !.kind = "array"]}
Defaults == [keyName : {None, "dk"}, keyId : {None, "did"}, privateKey : {None, "ds"}]
Cons == {"ok", "fail"}
Returns == [raised |-> FALSE, msg |-> <<>>]
Raises(m) == [raised |-> TRUE, msg |-> m]

MsgTokens == {CBE, ERR, SP, ":"} \cup Digits
Msgs == UNION {[1..n -> MsgTokens] : n \in 0..MaxMsgLen}
SampleMsgs == {<<"timeout">>, <<CBE, SP, "4", "0", "4">>}

InitStdioIdle ==
    /\ env = [keyName |-> None, keyId |-> None, privateKey |-> None]
    /\ client = NoClient
    /\ pc = "done"
    /\ line = None
    /\ resp = [out |-> None, before |-> NoClient]
    /\ nread = 0
    /\ nout = 0
    /\ clock = 0
    /\ submitted = <<>>

InitHttp ==
    /\ defaults \in Defaults
    /\ api_client = NoClient
    /\ hpc = [r \in Slots |-> "idle"]
    /\ hbody = [r \in Slots |-> NoBody]
    /\ hresp = [r \in Slots |-> NoResp]
    /\ InitStdioIdle

\* a POST /proxy arrives; the handler runs up to `await request.json()`
Receive(r, body) ==
    /\ hpc[r] = "idle"
    /\ hpc' = [hpc EXCEPT ![r] = "json"]
    /\ hbody' = [hbody EXCEPT ![r] = body]
    /\ UNCHANGED <<defaults, api_client, hresp, svars>>

\* the body is in; the rest of proxy_request runs without yielding
Handle(r, cons, up) ==
    /\ hpc[r] = "json"
    /\ LET out == proxy_request(hbody[r], defaults, api_client, cons, up)
       IN /\ hresp' = [hresp EXCEPT ![r] = out]
          /\ api_client' = out.stash
    /\ hpc' = [hpc EXCEPT ![r] = "done"]
    /\ UNCHANGED <<defaults, hbody, svars>>

\* the response is sent; the slot is free for the next request
Finish(r) ==
    /\ hpc[r] = "done"
    /\ hpc' = [hpc EXCEPT ![r] = "idle"]
    /\ hbody' = [hbody EXCEPT ![r] = NoBody]
    /\ hresp' = [hresp EXCEPT ![r] = NoResp]
    /\ UNCHANGED <<defaults, api_client, svars>>

\* one request at a time, every body shape
NextProxy ==
    \/ \E body \in Bodies : Receive(1, body)
    \/ \E cons \in Cons, up \in {Returns} \cup {Raises(m) : m \in SampleMsgs} :
           Handle(1, cons, up)
    \/ Finish(1)
SpecProxy == InitHttp /\ [][NextProxy]_vars

\* one request at a time, every message the exchange client may raise
StatusBodies ==
    {[kind |-> "object", keyName |-> "rk", keyId |-> "rid", privateKey |-> "rs",
      method |-> m, path |-> AccountsPath, payload |-> None] : m \in {"GET", "DELETE"}}
NextStatus ==
    \/ \E body \in StatusBodies : Receive(1, body)
    \/ \E cons \in Cons, up \in {Returns} \cup {Raises(m) : m \in Msgs} :
           Handle(1, cons, up)
    \/ Finish(1)
SpecStatus == InitHttp /\ [][NextStatus]_vars

\* NReq requests in flight, interleaved at their await
ConcBodies ==
    {[kind |-> "object", keyName |-> k[1], keyId |-> k[2], privateKey |-> k[3],
      method |-> "GET", path |-> p, payload |-> None] :
        k \in {<<"rk", "rid", "rs">>, <<"rk2", "rid2", "rs2">>, <<None, None, None>>},
        p \in {AccountsPath, Brokerage \o <<"/", "fills">>}}
NextConc ==
    \E r \in Slots :
        \/ \E body \in ConcBodies : Receive(r, body)
        \/ \E cons \in Cons, up \in {Returns, Raises(<<"timeout">>)} : Handle(r, cons, up)
        \/ Finish(r)
SpecConc == InitHttp /\ [][NextConc]_vars

(***************************************************************************)
(* Claims about the HTTP path.                                             *)
(***************************************************************************)
\* the effective value of a field: the request's own when it has one
Effective(body, defs, f) == IF body.kind = "object" THEN Or(body[f], defs[f]) ELSE defs[f]
Normalized(path) == IF path # <<>> /\ path[1] # "/" THEN <<"/">> \o path ELSE path
MissingField(body, defs) ==
    \/ ~Truthy(Effective(body, defs, "keyName"))
    \/ ~Truthy(Effective(body, defs, "privateKey"))
    \/ body.kind # "object"
    \/ ~Truthy(body.method)
    \/ body.path = <<>>
Refused(r) == hresp[r].status = 400 /\ ~hresp[r].made /\ hresp[r].op = "none"

\* C1 (as claimed): every POST /proxy request whose effective keyName,
\* privateKey, method or path is missing is answered 400 with no upstream call.
C1_MissingIs400 ==
    \A r \in Slots :
        hpc[r] = "done" /\ MissingField(hbody[r], defaults) => Refused(r)
\* C1 restricted to bodies that are JSON objects or are not JSON at all
C1_ObjectBodies ==
    \A r \in Slots :
        hpc[r] = "done" /\ hbody[r].kind \in {"object", "malformed"}
            => (MissingField(hbody[r], defaults) <=> Refused(r))

\* the four routes, the method compared without regard to case
InRoutingTable(method, path) ==
    \/ upper(method) = "GET" /\ path = AccountsPath
    \/ upper(method) = "GET" /\ startswith(path, ProductsPrefix)
                             /\ endswith(path, TickerSuffix)
    \/ upper(method) = "POST" /\ path = OrdersPath
    \/ upper(method) = "GET" /\ path = OrdersPath
Unmatched(r) ==
    /\ hpc[r] = "done"
    /\ hresp[r].made
    /\ ~InRoutingTable(hbody[r].method, Normalized(hbody[r].path))
NamesPair(r) ==
    /\ contains(hresp[r].detail, <<" not yet implemented in Python backend">>)
    /\ contains(hresp[r].detail, <<hbody[r].method>>)
    /\ contains(hresp[r].detail, Normalized(hbody[r].path))

\* C2 (as claimed): an unmatched (method, path) gives a not-implemented error
\* naming the pair, whatever the outcome of client construction.
C2_AlwaysNotImplemented ==
    \A r \in Slots :
        Unmatched(r) => hresp[r].error /\ ~hresp[r].raised /\ NamesPair(r)
\* C2 (amended): for an unmatched (method, path) make_request never raises and
\* issues no upstream call; it returns the not-implemented error naming the
\* method and the path when the client was constructed, and the
\* client-construction error when construction failed.
C2_NotImplementedAfterConstruction ==
    \A r \in Slots :
        Unmatched(r) =>
            /\ hresp[r].error /\ ~hresp[r].raised /\ hresp[r].op = "none"
            /\ hresp[r].cons = "ok" => NamesPair(r)
            /\ hresp[r].cons = "fail" => hresp[r].detail = ClientInitMsg
C2_Witness ==
    /\ Unmatched(1) /\ hresp[1].cons = "ok" /\ NamesPair(1)
    /\ hbody[1].method = "DELETE" /\ hbody[1].path = Tail(AccountsPath)

\* the number written by the digits of msg from position i on
RECURSIVE Decimal(_)
Decimal(ds) ==
    IF ds = <<>> THEN 0
    ELSE 10 * Decimal(SubSeq(ds, 1, Len(ds) - 1)) + DigitValue(ds[Len(ds)])
\* msg reads "error <ds>" at position i, ds being all the digits there
ErrorNumberAt(msg, i, ds) ==
    /\ ds # <<>>
    /\ i + 1 + Len(ds) <= Len(msg)
    /\ msg[i] \in {CBE, ERR} /\ msg[i + 1] = SP
    /\ SubSeq(msg, i + 2, i + 1 + Len(ds)) = ds
    /\ \A k \in 1..Len(ds) : ds[k] \in Digits
    /\ (i + 2 + Len(ds) <= Len(msg) => msg[i + 2 + Len(ds)] \notin Digits)
DigitStrings == UNION {[1..n -> Digits] : n \in 1..MaxMsgLen}
HasErrorNumber(msg) ==
    \E i \in 1..Len(msg), ds \in DigitStrings : ErrorNumberAt(msg, i, ds)
ErrorReturned(r) == hpc[r] = "done" /\ hresp[r].made /\ hresp[r].error

\* C3 (as claimed): the status of a normalized error is NNN whenever its
\* message contains "error NNN", and 500 otherwise.
C3_StatusFromAnyMessage ==
    \A r \in Slots :
        ErrorReturned(r) =>
            IF HasErrorNumber(hresp[r].detail)
            THEN \E i \in 1..Len(hresp[r].detail), ds \in DigitStrings :
                     /\ ErrorNumberAt(hresp[r].detail, i, ds)
                     /\ hresp[r].status = Decimal(ds)
            ELSE hresp[r].status = 500
\* C3 (amended): the status of a normalized error is the number of the first
\* "error <digits>" of its message when the message also contains
\* "Coinbase API error", and 500 in every other case.
C3_StatusFromMarkedMessage ==
    \A r \in Slots :
        ErrorReturned(r) =>
            LET msg == hresp[r].detail IN
            IF (\E k \in 1..Len(msg) : msg[k] = CBE) /\ HasErrorNumber(msg)
            THEN \E i \in 1..Len(msg), ds \in DigitStrings :
                     /\ ErrorNumberAt(msg, i, ds)
                     /\ \A j \in 1..(i - 1) : \A es \in DigitStrings :
                            ~ErrorNumberAt(msg, j, es)
                     /\ hresp[r].status = Decimal(ds)
            ELSE hresp[r].status = 500
C3_Witness ==
    /\ ErrorReturned(1)
    /\ hresp[1].detail = <<CBE, SP, "4", "0">>
    /\ hresp[1].status = 40

OwnClient(r) ==
    <<Effective(hbody[r], defaults, "keyId"), Effective(hbody[r], defaults, "privateKey")>>
UsesOwnClient ==
    \A r \in Slots :
        hpc[r] = "done" /\ hresp[r].made =>
            /\ hresp[r].cons = "ok" => hresp[r].stash = OwnClient(r)
            /\ hresp[r].op # "none" => hresp[r].cl = OwnClient(r)

\* C10 (as claimed): every request calls upstream on a client built from its
\* own credentials, and the requests share no mutable state.
C10_NoSharedMutableState ==
    [][UsesOwnClient' /\ api_client' = api_client]_vars
\* C10 (amended): every proxy request that passes validation constructs a
\* client from its own effective keyId and privateKey and issues its upstream
\* call on that client, under any interleaving; the one mutable state the
\* requests share, api_client.client, is overwritten by each and read by none.
C10_OwnClientPerRequest == UsesOwnClient
C10_Witness ==
    /\ hpc[1] = "done" /\ hpc[2] = "done"
    /\ hresp[1].op # "none" /\ hresp[2].op # "none"
    /\ hresp[1].cl # hresp[2].cl
    /\ api_client = hresp[1].cl

(***************************************************************************)
(* mcp_server.py: the stdio server.  A request's params is a record of the *)
(* keys the handlers read; an absent key is None (a string key) or         *)
(* NoNumber (amount, price).                                               *)
(***************************************************************************)
NoNumber == 0 - 1
NoParams == [id |-> None, product_id |-> None, side |-> None, type |-> None,
             amount |-> NoNumber, price |-> NoNumber]
NoOrder == [client_order_id |-> <<>>, product_id |-> None, side |-> None,
            order_configuration |-> [none |-> [none |-> NoNumber]]]
NotInitMsg == "Coinbase client not initialized - check environment variables"

\* CoinbaseMCPServer.initialize_client: self.client afterwards
initialize_client(cl, e, cons) ==
    IF ~Truthy(e.keyName) \/ ~Truthy(e.privateKey) THEN cl
    ELSE IF cons = "ok" THEN <<e.keyId, e.privateKey>>
    ELSE cl

\* a handler that constructs a client at every call
ensure_client_Always(cl, e, cons) ==
    [client |-> initialize_client(NoClient, e, cons), attempted |-> TRUE]
\* "if not self.client: self.initialize_client()", the head of every handler
ensure_client(cl, e, cons) ==
    IF cl = NoClient
    THEN [client |-> initialize_client(cl, e, cons), attempted |-> TRUE]
    ELSE [client |-> cl, attempted |-> FALSE]

\* what a handler hands back, with what it did on the way
Reply(kind, msg, id, op, order, lz, ser) ==
    [kind |-> kind, msg |-> msg, id |-> id, hasid |-> TRUE,
     op |-> op, cl |-> IF op = "none" THEN NoClient ELSE lz.client,
     order |-> order, attempted |-> lz.attempted, after |-> lz.client,
     serializable |-> ser]

\* CoinbaseMCPServer.get_accounts
get_accounts(params, cl, e, cons, up) ==
    LET lz == ensure_client(cl, e, cons)
        pre == "Failed to get accounts: "
    IN IF lz.client = NoClient
       THEN Reply("error", <<pre, NotInitMsg>>, params.id, "none", NoOrder, lz, TRUE)
       ELSE IF up.raised
       THEN Reply("error", <<pre, up.msg>>, params.id, "get_accounts", NoOrder, lz, TRUE)
       ELSE Reply("result", <<>>, params.id, "get_accounts", NoOrder, lz, up.serializable)

\* CoinbaseMCPServer.get_product_ticker
get_product_ticker(params, cl, e, cons, up) ==
    LET lz == ensure_client(cl, e, cons)
        pre == "Failed to get product ticker: "
    IN IF lz.client = NoClient
       THEN Reply("error", <<pre, NotInitMsg>>, params.id, "none", NoOrder, lz, TRUE)
       ELSE IF ~Truthy(params.product_id)
       THEN Reply("error", <<pre, "product_id is required">>, params.id, "none",
                  NoOrder, lz, TRUE)
       ELSE IF up.raised
       THEN Reply("error", <<pre, up.msg>>, params.id, "get_public_product",
                  NoOrder, lz, TRUE)
       ELSE Reply("result", <<>>, params.id, "get_public_product", NoOrder, lz,
                  up.serializable)

\* a builder that sizes every order in quote currency and asks for no price
order_configuration_NoPrice(order_type, amount, price) ==
    [raised |-> FALSE,
     cfg |-> [market_market_ioc |-> [quote_size |-> amount]]]
\* place_order, lines 193-207: the configuration of a MARKET or a LIMIT order
order_configuration(order_type, amount, price) ==
    IF order_type = "MARKET"
    THEN [raised |-> FALSE,
          cfg |-> [market_market_ioc |-> [quote_size |-> amount]]]
    ELSE IF price = NoNumber \/ price = 0
    THEN [raised |-> TRUE, cfg |-> NoOrder.order_configuration]
    ELSE [raised |-> FALSE,
          cfg |-> [limit_limit_gtc |-> [base_size |-> amount, limit_price |-> price]]]

\* f"order_{int(asyncio.get_event_loop().time())}"
client_order_id(now) == <<"order_", now \div TicksPerSecond>>

\* CoinbaseMCPServer.place_order
place_order(params, cl, e, cons, up, now) ==
    LET lz == ensure_client(cl, e, cons)
        pre == "Failed to place order: "
        Fail(text) == Reply("error", <<pre, text>>, params.id, "none", NoOrder, lz, TRUE)
        side == upper(params.side)
        order_type == upper(params.type)
        oc == order_configuration(order_type, params.amount, params.price)
        order == [client_order_id |-> client_order_id(now),
                  product_id |-> params.product_id,
                  side |-> side,
                  order_configuration |-> oc.cfg]
    IN IF lz.client = NoClient THEN Fail(NotInitMsg)
       ELSE IF params.product_id = None THEN Fail("product_id is required")
       ELSE IF params.side = None THEN Fail("side is required")
       ELSE IF params.type = None THEN Fail("type is required")
       ELSE IF params.amount = NoNumber THEN Fail("amount is required")
       ELSE IF side \notin {"BUY", "SELL"} THEN Fail("side must be 'BUY' or 'SELL'")
       ELSE IF order_type \notin {"MARKET", "LIMIT"}
       THEN Fail("type must be 'MARKET' or 'LIMIT'")
       ELSE IF oc.raised THEN Fail("price is required for limit orders")
       ELSE IF up.raised
       THEN Reply("error", <<pre, up.msg>>, params.id, "create_order", order, lz, TRUE)
       ELSE Reply("result", <<>>, params.id, "create_order", order, lz, up.serializable)

Idle(cl) == [client |-> cl, attempted |-> FALSE]

\* CoinbaseMCPServer.handle_request, given a request that is a JSON object
handle_request(request, cl, e, cons, up, now) ==
    CASE request.method = "coinbase_get_accounts" ->
             get_accounts(request.params, cl, e, cons, up)
      [] request.method = "coinbase_get_product_ticker" ->
             get_product_ticker(request.params, cl, e, cons, up)
      [] request.method = "coinbase_place_order" ->
             place_order(request.params, cl, e, cons, up, now)
      [] OTHER ->
             Reply("error", <<"Unknown method: ", request.method>>, request.id,
                   "none", NoOrder, Idle(cl), TRUE)

\* a loop that stops at a line it cannot parse
main_iteration_Stops(l, cl, e, cons, up, now) ==
    IF l.kind = "malformed"
    THEN [out |-> Reply("error", <<"Invalid JSON: ", "Expecting value">>, None, "none",
                        NoOrder, Idle(cl), TRUE),
          lines |-> 1, pc |-> "done"]
    ELSE [out |-> handle_request(l, cl, e, cons, up, now), lines |-> 1, pc |-> "read"]
\* main, lines 251-275: one pass of the loop over a line that was read
main_iteration(l, cl, e, cons, up, now) ==
    IF l.kind = "malformed"
    THEN [out |-> Reply("error", <<"Invalid JSON: ", "Expecting value">>, None, "none",
                        NoOrder, Idle(cl), TRUE),
          lines |-> 1, pc |-> "read"]
    ELSE IF l.kind # "object"
    THEN [out |-> Reply("error", <<"Server error: ",
                                   "'list' object has no attribute 'get'">>,
                        None, "none", NoOrder, Idle(cl), TRUE),
          lines |-> 1, pc |-> "read"]
    ELSE LET r == handle_request(l, cl, e, cons, up, now)
         IN IF r.serializable
            THEN [out |-> r, lines |-> 1, pc |-> "read"]
            ELSE [out |-> [r EXCEPT !.kind = "error",
                                    !.msg = <<"Server error: ",
                                              "Object is not JSON serializable">>,
                                    !.id = None],
                  lines |-> 1, pc |-> "read"]

(***************************************************************************)
(* The stdio loop: the lines a caller may write and what the environment   *)
(* may do.                                                                 *)
(***************************************************************************)
Envs == [keyName : {None, "ek"}, keyId : {"eid"}, privateKey : {None, "es"}]
SUps == {[raised |-> FALSE, msg |-> "", serializable |-> TRUE],
         [raised |-> FALSE, msg |-> "", serializable |-> FALSE],
         [raised |-> TRUE, msg |-> "upstream failure", serializable |-> TRUE]}
NoLine == [kind |-> "none", method |-> None, id |-> None, params |-> NoParams]
NoReply == [Reply("none", <<>>, None, "none", NoOrder, Idle(NoClient), TRUE)
                EXCEPT !.hasid = FALSE]

RpcMethods == {"coinbase_get_accounts", "coinbase_get_product_ticker",
               "coinbase_place_order"}
MarketBuy == [NoParams EXCEPT !.product_id = "BTC-USD", !.side = "buy",
                              !.type = "market", !.amount = 50]
StdioParams ==
    {[q EXCEPT !.id = i] :
        q \in {NoParams, MarketBuy, [MarketBuy EXCEPT !.side = "hold"]},
        i \in {None, "9"}}
StdioLines ==
    [kind : {"object"}, method : RpcMethods \cup {"foo", None}, id : {None, "7"},
     params : StdioParams]
    \cup {[NoLine EXCEPT !.kind = "malformed"], [NoLine EXCEPT !.kind = "array"]}
OrderParams ==
    [id : {None}, product_id : {None, "BTC-USD"}, side : {None, "buy", "Sell", "hold"},
     type : {None, "market", "Limit", "stop"}, amount : {NoNumber, 50},
     price : {NoNumber, 0, 100}]
OrderLines ==
    [kind : {"object"}, method : {"coinbase_place_order"}, id : {None},
     params : OrderParams]

InitHttpIdle ==
    /\ defaults = [keyName |-> None, keyId |-> None, privateKey |-> None]
    /\ api_client = NoClient
    /\ hpc = [r \in Slots |-> "idle"]
    /\ hbody = [r \in Slots |-> NoBody]
    /\ hresp = [r \in Slots |-> NoResp]

\* CoinbaseMCPServer() has run: the client was constructed, or was not
InitStdio ==
    /\ env \in Envs
    /\ \E cons \in Cons : client = initialize_client(NoClient, env, cons)
    /\ pc = "read"
    /\ line = NoLine
    /\ resp = [out |-> NoReply, before |-> NoClient]
    /\ nread = 0
    /\ nout = 0
    /\ clock = 0
    /\ submitted = <<>>
    /\ InitHttpIdle

\* sys.stdin.readline() returns a line
ReadLine(l) ==
    /\ pc = "read"
    /\ nread < MaxLines
    /\ line' = l
    /\ nread' = nread + 1
    /\ pc' = "handle"
    /\ UNCHANGED <<env, client, resp, nout, clock, submitted, hvars>>

\* sys.stdin.readline() returns '': the loop breaks
EndOfInput ==
    /\ pc = "read"
    /\ line' = [NoLine EXCEPT !.kind = "eof"]
    /\ pc' = "done"
    /\ UNCHANGED <<env, client, resp, nread, nout, clock, submitted, hvars>>

\* the line is parsed, handled and answered
HandleLine(cons, up) ==
    /\ pc = "handle"
    /\ LET it == main_iteration(line, client, env, cons, up, clock)
       IN /\ resp' = [out |-> it.out, before |-> client]
          /\ client' = it.out.after
          /\ nout' = nout + it.lines
          /\ pc' = it.pc
          /\ submitted' = IF it.out.op = "create_order"
                          THEN Append(submitted, it.out.order.client_order_id)
                          ELSE submitted
    /\ UNCHANGED <<env, line, nread, clock, hvars>>

\* time passes while the loop waits for a line
Tick ==
    /\ clock < MaxClock
    /\ pc = "read"
    /\ clock' = clock + 1
    /\ UNCHANGED <<env, client, pc, line, resp, nread, nout, submitted, hvars>>

NextStdio ==
    \/ \E l \in StdioLines : ReadLine(l)
    \/ \E cons \in Cons, up \in SUps : HandleLine(cons, up)
    \/ EndOfInput
SpecStdio == InitStdio /\ [][NextStdio]_vars

NextOrder ==
    \/ \E l \in OrderLines : ReadLine(l)
    \/ \E cons \in Cons, up \in SUps : HandleLine(cons, up)
    \/ EndOfInput
    \/ Tick
SpecOrder == InitStdio /\ [][NextOrder]_vars

(***************************************************************************)
(* Claims about the stdio path.                                            *)
(***************************************************************************)
\* the line read last has been answered, and resp is its answer
Answered == pc = "read" /\ nread > 0
Operation == Answered /\ line.kind = "object" /\ line.method \in RpcMethods

\* C4 (as claimed): the response carries the id the request supplied, at its
\* top level or in its params, and none (null) when it supplied none.
C4_IdEchoed ==
    Answered /\ line.kind = "object" =>
        LET given == {line.id, line.params.id} \ {None}
        IN IF given # {} THEN resp.out.id \in given ELSE resp.out.id = None

\* C5: every line read is answered by exactly one response line before the
\* next is read; a line that is not JSON is answered by an "Invalid JSON"
\* error with id null and does not end the loop; only end-of-input ends it.
C5_OneResponsePerLine ==
    /\ pc = "handle" => nout = nread - 1
    /\ pc \in {"read", "done"} => nout = nread
    /\ pc = "done" <=> line.kind = "eof"
    /\ Answered /\ line.kind = "malformed" =>
           /\ resp.out.kind = "error"
           /\ resp.out.msg[1] = "Invalid JSON: "
           /\ resp.out.id = None
C5_Witness ==
    /\ pc = "handle" /\ nread = 2 /\ nout = 1
    /\ line.kind = "object"
    /\ resp.out.msg = <<"Invalid JSON: ", "Expecting value">>

\* C9: an operation that finds no cached client attempts construction first,
\* and answers client-not-initialized with no upstream call if it still has
\* none; a cached client is never constructed again nor cleared, and every
\* later upstream call goes through it.
C9_ClientMachine ==
    /\ Operation /\ resp.before = NoClient =>
           /\ resp.out.attempted
           /\ resp.out.after = NoClient =>
                  /\ resp.out.op = "none"
                  /\ resp.out.kind = "error"
                  /\ resp.out.msg[2] = NotInitMsg
    /\ Answered /\ resp.before # NoClient =>
           /\ ~resp.out.attempted
           /\ resp.out.after = resp.before
           /\ resp.out.op # "none" => resp.out.cl = resp.before
    /\ Answered => client = resp.out.after
C9_Witness ==
    /\ Operation /\ nread = 2
    /\ resp.before = NoClient /\ client # NoClient
    /\ resp.out.op # "none"

\* the spellings of the model's sides and types, and what each stands for
SideSpellings == {"buy", "BUY", "Sell", "SELL"}
MarketSpellings == {"market", "MARKET"}
LimitSpellings == {"Limit", "LIMIT"}
Canonical(side) == IF side \in {"buy", "BUY"} THEN "BUY" ELSE "SELL"
SideError == <<"Failed to place order: ", "side must be 'BUY' or 'SELL'">>
TypeError == <<"Failed to place order: ", "type must be 'MARKET' or 'LIMIT'">>
PriceError == <<"Failed to place order: ", "price is required for limit orders">>
\* a place_order request with the four required fields reached validation
OrderValidated ==
    /\ Answered /\ line.kind = "object" /\ line.method = "coinbase_place_order"
    /\ resp.out.after # NoClient
    /\ line.params.product_id # None /\ line.params.side # None
    /\ line.params.type # None /\ line.params.amount # NoNumber
Submitted == Answered /\ resp.out.op = "create_order"

\* C6: with product_id, side, type and amount given (and a client at hand),
\* side is accepted iff it spells BUY or SELL in any case and type iff it
\* spells MARKET or LIMIT; anything else is answered by the error naming the
\* allowed set, and a submitted order carries the side in upper case.
C6_SideAndType ==
    /\ OrderValidated =>
           LET p == line.params IN
           /\ p.side \notin SideSpellings =>
                  resp.out.msg = SideError /\ resp.out.op = "none"
           /\ p.side \in SideSpellings
                  /\ p.type \notin MarketSpellings \cup LimitSpellings =>
                  resp.out.msg = TypeError /\ resp.out.op = "none"
           /\ p.side \in SideSpellings
                  /\ p.type \in MarketSpellings \cup LimitSpellings =>
                  resp.out.msg \notin {SideError, TypeError}
    /\ Submitted =>
           /\ line.params.side \in SideSpellings
           /\ line.params.type \in MarketSpellings \cup LimitSpellings
           /\ resp.out.order.side = Canonical(line.params.side)
C6_Witness ==
    /\ Submitted /\ OrderValidated
    /\ line.params.side = "buy" /\ resp.out.order.side = "BUY"

\* C7: a submitted MARKET order carries market_market_ioc with quote_size =
\* amount and nothing else, whatever price was sent; a submitted LIMIT order
\* carries limit_limit_gtc with base_size = amount and limit_price = price,
\* price being present and truthy; a LIMIT request without a truthy price is
\* answered by a validation error and submits nothing.
C7_OneConfiguration ==
    /\ Submitted =>
           LET p == line.params
               cfg == resp.out.order.order_configuration IN
           IF p.type \in MarketSpellings
           THEN /\ DOMAIN cfg = {"market_market_ioc"}
                /\ cfg.market_market_ioc = [quote_size |-> p.amount]
           ELSE /\ p.type \in LimitSpellings
                /\ p.price \notin {NoNumber, 0}
                /\ DOMAIN cfg = {"limit_limit_gtc"}
                /\ cfg.limit_limit_gtc =
                       [base_size |-> p.amount, limit_price |-> p.price]
    /\ OrderValidated /\ line.params.side \in SideSpellings
           /\ line.params.type \in LimitSpellings
           /\ line.params.price \in {NoNumber, 0} =>
           resp.out.msg = PriceError /\ resp.out.op = "none"
C7_Witness ==
    /\ Submitted
    /\ line.params.type = "Limit" /\ line.params.price = 100
    /\ resp.out.order.order_configuration =
           [limit_limit_gtc |-> [base_size |-> 50, limit_price |-> 100]]

\* C8 (as claimed): no two place_order calls of one server run submit orders
\* carrying the same client_order_id.
C8_UniqueOrderIds ==
    \A i, j \in 1..Len(submitted) : i # j => submitted[i] # submitted[j]

=============================================================================
